---- MODULE Spec2Model ----
(***************************************************************************)
(* Hill cipher tool (hill_cipher_pro_en.py / hill_cipher_pro.py).          *)
(*                                                                         *)
(* The model follows HillCipherProApp: the widgets that hold state         *)
(* (key_entry, vector_mode, plaintext_area, ciphertext_area, log_area,     *)
(* status_label), the two button handlers process_action('encrypt') and    *)
(* process_action('decrypt'), clear_all, and the helpers                   *)
(* _str_to_key_matrix, _mod_inverse_num and _get_key_inverse.              *)
(*                                                                         *)
(* Strings are sequences of code points (ord values), so that split(),     *)
(* int(), str.isalpha, str.upper, ord() and chr() are modelled by what     *)
(* they do.  A matrix is a sequence of rows.                               *)
(***************************************************************************)
EXTENDS Integers, Sequences, FiniteSets, TLC

VARIABLES key_entry, vector_mode, plaintext_area, ciphertext_area,
          log_area, status_label, frame, prev, observed, steps,
          mi_a, mi_m, mi_ret

vars == <<key_entry, vector_mode, plaintext_area, ciphertext_area,
          log_area, status_label, frame, prev, observed, steps,
          mi_a, mi_m, mi_ret>>

(***************************************************************************)
(* Bounds of the model.                                                    *)
(***************************************************************************)
\* 1x1 keys range over -MaxEntry1..MaxEntry1
MaxEntry1 == 30
\* 2x2 keys have entries in -1..MaxEntry2, and BigEntry
MaxEntry2 == 1
\* an entry larger than 25
BigEntry == 27
\* raw texts of the engine specification have at most MaxTextLen characters
MaxTextLen == 3
\* the application specification runs at most MaxSteps handlers
MaxSteps == 5
\* _mod_inverse_num is called directly with a in -MaxA..MaxA, m in 1..MaxMod
MaxA == 30
MaxMod == 27

(***************************************************************************)
(* Generic helpers on sequences.                                           *)
(***************************************************************************)
RECURSIVE SumSeq(_)
SumSeq(s) ==
    IF s = <<>> THEN 0 ELSE Head(s) + SumSeq(Tail(s))

RECURSIVE Concat(_)
Concat(ss) ==
    IF ss = <<>> THEN <<>> ELSE Head(ss) \o Concat(Tail(ss))

Repeat(c, n) ==
    [i \in 1..n |-> c]

(***************************************************************************)
(* Python string built-ins, on code points.                                *)
(***************************************************************************)
\* ord('A')
OrdA == 65

\* str.split() with no argument splits on runs of whitespace
IsSpace(c) ==
    c \in {9, 10, 11, 12, 13, 32}

IsDigit(c) ==
    c \in 48..57

\* str.isalpha: the ASCII letters, and the letters outside ASCII that the
\* model's texts use: 201 (E acute) and 233 (e acute)
IsAlpha(c) ==
    c \in (65..90) \cup (97..122) \cup {201, 233}

\* str.upper, one character
UpperChar(c) ==
    IF c \in 97..122 THEN c - 32
    ELSE IF c = 233 THEN 201
    ELSE c

\* ''.join(filter(str.isalpha, text))
FilterAlpha(text) ==
    SelectSeq(text, IsAlpha)

\* s.upper()
Upper(s) ==
    [i \in 1..Len(s) |-> UpperChar(s[i])]

RECURSIVE SplitFrom(_, _, _, _)
SplitFrom(s, i, cur, acc) ==
    IF i > Len(s)
    THEN IF cur = <<>> THEN acc ELSE Append(acc, cur)
    ELSE IF IsSpace(s[i])
         THEN SplitFrom(s, i + 1, <<>>, IF cur = <<>> THEN acc ELSE Append(acc, cur))
         ELSE SplitFrom(s, i + 1, Append(cur, s[i]), acc)

\* key_str.split()
Split(s) ==
    SplitFrom(s, 1, <<>>, <<>>)

RECURSIVE DigitsValue(_, _)
DigitsValue(ds, acc) ==
    IF ds = <<>> THEN acc
    ELSE DigitsValue(Tail(ds), 10 * acc + (Head(ds) - 48))

\* int(tok) raises ValueError unless tok is an optional sign and digits
IntOk(tok) ==
    LET body == IF tok # <<>> /\ Head(tok) \in {43, 45} THEN Tail(tok) ELSE tok
    IN  /\ body # <<>>
        /\ \A i \in 1..Len(body) : IsDigit(body[i])

\* int(tok), for a token int() accepts
IntOf(tok) ==
    IF Head(tok) = 45 THEN 0 - DigitsValue(Tail(tok), 0)
    ELSE IF Head(tok) = 43 THEN DigitsValue(Tail(tok), 0)
    ELSE DigitsValue(tok, 0)

\* int(math.sqrt(n))
RECURSIVE ISqrtFrom(_, _)
ISqrtFrom(n, r) ==
    IF (r + 1) * (r + 1) > n THEN r ELSE ISqrtFrom(n, r + 1)

ISqrt(n) ==
    ISqrtFrom(n, 0)

(***************************************************************************)
(* _str_to_key_matrix                                                      *)
(***************************************************************************)
\* np.array(nums).reshape(size, size): row-major
Reshape(nums, size) ==
    [r \in 1..size |-> [c \in 1..size |-> nums[(r - 1) * size + c]]]

\* the matrix, or None with the error dialog that was shown
StrToKeyMatrix(key_str) ==
    LET toks == Split(key_str)
    IN  IF \E i \in 1..Len(toks) : ~IntOk(toks[i])
        THEN [ok |-> FALSE, error |-> "NonNumeric", matrix |-> <<>>]
        ELSE LET nums == [i \in 1..Len(toks) |-> IntOf(toks[i])]
                 size == ISqrt(Len(nums))
             IN  IF size * size # Len(nums)
                 THEN [ok |-> FALSE, error |-> "NotPerfectSquare", matrix |-> <<>>]
                 ELSE [ok |-> TRUE, error |-> "", matrix |-> Reshape(nums, size)]

(***************************************************************************)
(* _mod_inverse_num                                                        *)
(***************************************************************************)
\* CPython's long_invmod: the extended Euclid loop, b*a0 = a (mod n0)
RECURSIVE InvmodLoop(_, _, _, _)
InvmodLoop(a, n, b, c) ==
    IF n = 0 THEN [g |-> a, x |-> b]
    ELSE InvmodLoop(n, a % n, c, b - (a \div n) * c)

\* pow(a, -1, m) without the "base is not invertible" ValueError
PowInverseUnchecked(a, m) ==
    IF m = 1 THEN [some |-> TRUE, val |-> 0]
    ELSE [some |-> TRUE, val |-> InvmodLoop(a, m, 1, 0).x % m]

\* pow(a, -1, m) without the final reduction into [0, m)
PowInverseNoReduce(a, m) ==
    IF m = 1 THEN [some |-> TRUE, val |-> 0]
    ELSE LET r == InvmodLoop(a, m, 1, 0)
         IN  IF r.g # 1 THEN [some |-> FALSE, val |-> 0]
             ELSE [some |-> TRUE, val |-> r.x]

\* pow(a, -1, m) for m >= 1: ValueError (some = FALSE) when a is not
\* invertible; modulus 1 gives 0 before any inverse is computed
PowInverse(a, m) ==
    IF m = 1 THEN [some |-> TRUE, val |-> 0]
    ELSE LET r == InvmodLoop(a, m, 1, 0)
         IN  IF r.g # 1 THEN [some |-> FALSE, val |-> 0]
             ELSE [some |-> TRUE, val |-> r.x % m]

\* a = a % m; try: return pow(a, -1, m); except ValueError: return None
ModInverseNum(a, m) ==
    PowInverse(a % m, m)

(***************************************************************************)
(* numpy: determinant, inverse, products                                   *)
(***************************************************************************)
Minor(M, i, j) ==
    [r \in 1..(Len(M) - 1) |->
        [c \in 1..(Len(M) - 1) |->
            M[IF r < i THEN r ELSE r + 1][IF c < j THEN c ELSE c + 1]]]

Sign(k) ==
    IF k % 2 = 0 THEN 1 ELSE 0 - 1

\* int(round(np.linalg.det(M))): the exact integer determinant, which the
\* rounding recovers for entries of this size, by expansion along the first
\* row; numpy gives 1.0 for the 0x0 matrix
RECURSIVE Det(_)
Det(M) ==
    IF Len(M) = 0 THEN 1
    ELSE IF Len(M) = 1 THEN M[1][1]
    ELSE SumSeq([j \in 1..Len(M) |-> Sign(1 + j) * M[1][j] * Det(Minor(M, 1, j))])

\* the cofactor matrix, not transposed
CofactorMatrix(M) ==
    [i \in 1..Len(M) |-> [j \in 1..Len(M) |-> Sign(i + j) * Det(Minor(M, i, j))]]

\* np.round(np.linalg.inv(M) * det).astype(int): the adjugate, the
\* transposed cofactor matrix
Adjugate(M) ==
    [i \in 1..Len(M) |-> [j \in 1..Len(M) |-> Sign(i + j) * Det(Minor(M, j, i))]]

\* det_inv * adjugate_matrix, not reduced
ScaleNoMod(k, M) ==
    [i \in 1..Len(M) |-> [j \in 1..Len(M) |-> k * M[i][j]]]

\* (det_inv * adjugate_matrix) % 26
ScaleMod(k, M) ==
    [i \in 1..Len(M) |-> [j \in 1..Len(M) |-> (k * M[i][j]) % 26]]

\* vec @ M
VecMat(v, M) ==
    [j \in 1..Len(M) |-> SumSeq([k \in 1..Len(v) |-> v[k] * M[k][j]])]

\* M @ vec.T
MatVec(M, v) ==
    [i \in 1..Len(M) |-> SumSeq([k \in 1..Len(v) |-> M[i][k] * v[k]])]

(***************************************************************************)
(* The log: one record per call of log(message)                            *)
(***************************************************************************)
LogEntry(kind, str, num, num2, mat, txt) ==
    [kind |-> kind, str |-> str, num |-> num, num2 |-> num2, mat |-> mat, txt |-> txt]

(***************************************************************************)
(* _get_key_inverse: the inverse (or None) and the lines it logs           *)
(***************************************************************************)
GetKeyInverse(key_matrix) ==
    LET det == Det(key_matrix)
        det_inv == ModInverseNum(det, 26)
        l1 == LogEntry("det", "", det, 0, <<>>, <<>>)
    IN  IF ~det_inv.some
        THEN [some |-> FALSE, det |-> det, matrix |-> <<>>,
              log |-> <<l1, LogEntry("not_coprime", "", det, 0, <<>>, <<>>)>>]
        ELSE LET inverse_matrix == ScaleMod(det_inv.val, Adjugate(key_matrix))
             IN  [some |-> TRUE, det |-> det, matrix |-> inverse_matrix,
                  log |-> <<l1, LogEntry("det_inv", "", det, det_inv.val, <<>>, <<>>),
                            LogEntry("inverse", "", 0, 0, inverse_matrix, <<>>)>>]

(***************************************************************************)
(* process_action: normalisation, padding, block transform                 *)
(***************************************************************************)
\* widget.get("1.0", tk.END): a Text widget's content ends with a newline
TextGet(area) ==
    area \o <<10>>

\* processed_text = ''.join(filter(str.isalpha, text)).upper()
Normalize(text) ==
    Upper(FilterAlpha(text))

\* padding without the test that the length is not yet a multiple of m
PadAlways(processed_text, m) ==
    processed_text \o Repeat(OrdA, m - (Len(processed_text) % m))

\* if len(processed_text) % m != 0: processed_text += 'A' * padding_needed
Pad(processed_text, m) ==
    IF Len(processed_text) % m # 0
    THEN processed_text \o Repeat(OrdA, m - (Len(processed_text) % m))
    ELSE processed_text

\* range(0, len(processed_text), m) as block numbers 1..
BlockCount(processed_text, m) ==
    (Len(processed_text) + m - 1) \div m

\* chunk = processed_text[i:i+m]
Chunk(processed_text, m, b) ==
    LET hi == IF b * m < Len(processed_text) THEN b * m ELSE Len(processed_text)
    IN  SubSeq(processed_text, (b - 1) * m + 1, hi)

\* vec = np.array([ord(char) - ord('A') for char in chunk])
BlockVec(chunk) ==
    [k \in 1..Len(chunk) |-> chunk[k] - OrdA]

\* the two conventions exchanged
ResultVecSwapped(vec, matrix_to_use, vmode) ==
    IF vmode = "row"
    THEN [i \in 1..Len(matrix_to_use) |-> MatVec(matrix_to_use, vec)[i] % 26]
    ELSE [j \in 1..Len(matrix_to_use) |-> VecMat(vec, matrix_to_use)[j] % 26]

\* a remainder that keeps the sign of the dividend (np.fmod, C's %)
TruncRem26(x) ==
    IF x >= 0 THEN x % 26 ELSE 0 - ((0 - x) % 26)

\* the products reduced with the truncating remainder
ResultVecTruncated(vec, matrix_to_use, vmode) ==
    IF vmode = "row"
    THEN [j \in 1..Len(matrix_to_use) |-> TruncRem26(VecMat(vec, matrix_to_use)[j])]
    ELSE [i \in 1..Len(matrix_to_use) |-> TruncRem26(MatVec(matrix_to_use, vec)[i])]

\* (vec @ matrix_to_use) % 26, or (matrix_to_use @ vec.T) % 26
ResultVec(vec, matrix_to_use, vmode) ==
    IF vmode = "row"
    THEN [j \in 1..Len(matrix_to_use) |-> VecMat(vec, matrix_to_use)[j] % 26]
    ELSE [i \in 1..Len(matrix_to_use) |-> MatVec(matrix_to_use, vec)[i] % 26]

\* ''.join([chr(int(num) + ord('A')) for num in result_vec])
VecText(result_vec) ==
    [j \in 1..Len(result_vec) |-> result_vec[j] + OrdA]

\* the for loop that builds result_text
Transform(processed_text, matrix_to_use, vmode) ==
    LET m == Len(matrix_to_use)
    IN  Concat([b \in 1..BlockCount(processed_text, m) |->
                  VecText(ResultVec(BlockVec(Chunk(processed_text, m, b)),
                                    matrix_to_use, vmode))])

\* the local variables of one run of process_action, the dialog it showed
\* (outcome) and the lines it logged; the variable frame holds those of the
\* latest run and prev those of the run before it
Frame(mode, key_str, vmode, text, outcome, K, M, det, filtered, processed, result, log) ==
    [mode |-> mode, key_str |-> key_str, vector_mode |-> vmode, text |-> text,
     outcome |-> outcome, key_matrix |-> K, matrix_to_use |-> M, det |-> det,
     filtered |-> filtered, processed_text |-> processed, result_text |-> result,
     log |-> log]

NoFrame ==
    Frame("", <<>>, "", <<>>, "none", <<>>, <<>>, 0, <<>>, <<>>, <<>>, <<>>)

\* process_action from the key parse to its return or exception: with a 0x0
\* key matrix, len(processed_text) % m raises ZeroDivisionError before any
\* text is written
RunAction(mode, key_str, vmode, text) ==
    LET parsed == StrToKeyMatrix(key_str)
        key_matrix == parsed.matrix
        head == << LogEntry("start", mode, 0, 0, <<>>, <<>>),
                   LogEntry("mode", vmode, 0, 0, <<>>, <<>>),
                   LogEntry("key", "", 0, 0, key_matrix, <<>>) >>
        inv == GetKeyInverse(key_matrix)
        matrix_to_use == IF mode = "encrypt" THEN key_matrix ELSE inv.matrix
        det == IF mode = "encrypt" THEN 0 ELSE inv.det
        log1 == IF mode = "encrypt" THEN head ELSE head \o inv.log
        filtered == Normalize(text)
        m == Len(matrix_to_use)
    IN  IF ~parsed.ok
        THEN Frame(mode, key_str, vmode, text, parsed.error, <<>>, <<>>, 0,
                   <<>>, <<>>, <<>>, <<>>)
        ELSE IF mode = "decrypt" /\ ~inv.some
        THEN Frame(mode, key_str, vmode, text, "NotInvertible", key_matrix, <<>>, det,
                   <<>>, <<>>, <<>>, log1)
        ELSE IF m = 0
        THEN Frame(mode, key_str, vmode, text, "ZeroDivisionError", key_matrix,
                   matrix_to_use, det, filtered, <<>>, <<>>, log1)
        ELSE LET processed_text == Pad(filtered, m)
                 log2 == IF Len(filtered) % m # 0
                         THEN Append(log1, LogEntry("padded", "", 0, 0, <<>>, processed_text))
                         ELSE log1
                 result_text == Transform(processed_text, matrix_to_use, vmode)
             IN  Frame(mode, key_str, vmode, text, "ok", key_matrix, matrix_to_use, det,
                       filtered, processed_text, result_text,
                       Append(log2, LogEntry("finished", "", 0, 0, <<>>, <<>>)))

\* a run that goes on to write result_text after a failure
AlwaysCompleted(f) ==
    TRUE

\* whether the run reached the lines that write result_text to a text area
\* (no return after a failed parse or inversion, no exception)
Completed(f) ==
    f.outcome = "ok"

\* the log left as it was
KeptLog(log) ==
    log

\* log_area.delete("1.0", tk.END) at the start of process_action
ClearedLog(log) ==
    <<>>

\* the status label after the run: parse failures and exceptions leave it
StatusAfter(f, status) ==
    IF f.outcome = "ok" THEN IF f.mode = "encrypt" THEN "Encrypt complete."
                                                   ELSE "Decrypt complete."
    ELSE IF f.outcome = "NotInvertible"
    THEN "Decryption failed: Key is not invertible."
    ELSE status

\* the button handler process_action(mode), as one step
ProcessAction(mode) ==
    \E f \in {RunAction(mode, key_entry, vector_mode,
                        TextGet(IF mode = "encrypt" THEN plaintext_area
                                                    ELSE ciphertext_area))} :
        /\ frame' = f
        /\ prev' = frame
        /\ log_area' = ClearedLog(log_area) \o f.log
        /\ status_label' = StatusAfter(f, status_label)
        /\ IF Completed(f) /\ mode = "encrypt"
           THEN ciphertext_area' = f.result_text
           ELSE ciphertext_area' = ciphertext_area
        /\ IF Completed(f) /\ mode = "decrypt"
           THEN plaintext_area' = f.result_text
           ELSE plaintext_area' = plaintext_area
        /\ UNCHANGED <<key_entry, vector_mode>>

\* the Clear button
ClearAll ==
    /\ plaintext_area' = <<>>
    /\ ciphertext_area' = <<>>
    /\ log_area' = <<>>
    /\ status_label' = "All fields cleared."
    /\ UNCHANGED <<key_entry, vector_mode, frame, prev>>

(***************************************************************************)
(* Inputs: what the user can put into the widgets                          *)
(***************************************************************************)
RECURSIVE DecStr(_)
DecStr(n) ==
    IF n < 0 THEN <<45>> \o DecStr(0 - n)
    ELSE IF n < 10 THEN <<48 + n>>
    ELSE DecStr(n \div 10) \o <<48 + (n % 10)>>

RECURSIVE KeyStr(_)
KeyStr(nums) ==
    IF Len(nums) = 0 THEN <<>>
    ELSE IF Len(nums) = 1 THEN DecStr(nums[1])
    ELSE DecStr(Head(nums)) \o <<32>> \o KeyStr(Tail(nums))

\* "11 8 3 7", the key the entry holds at start
DefaultKey ==
    KeyStr(<<11, 8, 3, 7>>)

\* "ACT", the plaintext the window holds at start
DefaultPlaintext ==
    <<65, 67, 84>>

Keys1 ==
    {KeyStr(<<a>>) : a \in (0 - MaxEntry1)..MaxEntry1}

Entries2 ==
    ((0 - 1)..MaxEntry2) \cup {BigEntry}

Keys2 ==
    {KeyStr(<<a, b, c, d>>) : a \in Entries2, b \in Entries2, c \in Entries2, d \in Entries2}

Keys3 ==
    { KeyStr(<<6, 24, 1, 13, 16, 10, 20, 17, 15>>),
      KeyStr(<<2, 0, 0, 0, 13, 0, 0, 0, 1>>),
      KeyStr(<<1, 2, 3, 4, 5, 6, 7, 8, 9>>),
      KeyStr(<<0 - 1, 2, 0, 0, 27, 5, 3, 0, 1>>) }

\* "", "  ", "1 2 3", "a b c d", "1 2 x", "1.5", "-", "+3", "2\t4\n6  8", "1 2"
OddKeys ==
    { <<>>, <<32, 32>>, <<49, 32, 50, 32, 51>>, <<97, 32, 98, 32, 99, 32, 100>>,
      <<49, 32, 50, 32, 120>>, <<49, 46, 53>>, <<45>>, <<43, 51>>,
      <<50, 9, 52, 10, 54, 32, 32, 56>>, <<49, 32, 50>> }

AllKeys ==
    Keys1 \cup Keys2 \cup Keys3 \cup OddKeys \cup {DefaultKey}

\* "11 8 3 7", "3", "2", "", the 3x3 key, "2 4 6 8"
FewKeys ==
    { DefaultKey, <<51>>, <<50>>, <<>>, KeyStr(<<6, 24, 1, 13, 16, 10, 20, 17, 15>>),
      KeyStr(<<2, 4, 6, 8>>) }

\* A, c, T, 7, e acute
Chars ==
    {65, 99, 84, 55, 233}

RECURSIVE SeqsUpTo(_, _)
SeqsUpTo(S, n) ==
    IF n = 0 THEN {<<>>}
    ELSE LET shorter == SeqsUpTo(S, n - 1)
         IN  shorter \cup {Append(s, c) : s \in {t \in shorter : Len(t) = n - 1}, c \in S}

AllTexts ==
    SeqsUpTo(Chars, MaxTextLen)

\* "ACT", "", "A c t!!", "ZZTA", "AcT" with e acute
FewTexts ==
    { DefaultPlaintext, <<>>, <<65, 32, 99, 32, 116, 33, 33>>, <<90, 90, 84, 65>>,
      <<65, 233, 84>> }

Modes ==
    {"row", "column"}

(***************************************************************************)
(* The engine specification: any key, convention and text, then the two    *)
(* handlers.                                                               *)
(***************************************************************************)
EngineInputs ==
    (AllKeys \X FewTexts) \cup (FewKeys \X AllTexts)

InitEngine ==
    /\ \E in \in EngineInputs :
          /\ key_entry = in[1]
          /\ \/ plaintext_area = in[2] /\ ciphertext_area = <<>>
             \/ plaintext_area = <<>> /\ ciphertext_area = in[2]
    /\ vector_mode \in Modes
    /\ log_area = <<>>
    /\ status_label = "Ready. Please configure the key and enter text."
    /\ frame = NoFrame
    /\ prev = NoFrame
    /\ observed = <<>>
    /\ steps = 0
    /\ mi_a = 0 /\ mi_m = 26 /\ mi_ret = [called |-> FALSE, some |-> FALSE, val |-> 0]

Encrypt ==
    /\ ProcessAction("encrypt")
    /\ UNCHANGED <<observed, steps, mi_a, mi_m, mi_ret>>

Decrypt ==
    /\ ProcessAction("decrypt")
    /\ UNCHANGED <<observed, steps, mi_a, mi_m, mi_ret>>

NextEngine ==
    \/ Encrypt
    \/ Decrypt

SpecEngine ==
    InitEngine /\ [][NextEngine]_vars

(***************************************************************************)
(* _mod_inverse_num called on its own: any a, any modulus from 1 up        *)
(***************************************************************************)
InitWidgets ==
    /\ key_entry = DefaultKey
    /\ vector_mode = "row"
    /\ plaintext_area = DefaultPlaintext
    /\ ciphertext_area = <<>>
    /\ log_area = <<>>
    /\ status_label = "Ready. Please configure the key and enter text."
    /\ frame = NoFrame
    /\ prev = NoFrame
    /\ observed = <<>>
    /\ steps = 0

InitModInverse ==
    /\ InitWidgets
    /\ mi_a \in (0 - MaxA)..MaxA
    /\ mi_m \in 1..MaxMod
    /\ mi_ret = [called |-> FALSE, some |-> FALSE, val |-> 0]

CallModInverse ==
    /\ ~mi_ret.called
    /\ \E r \in {ModInverseNum(mi_a, mi_m)} :
          mi_ret' = [called |-> TRUE, some |-> r.some, val |-> r.val]
    /\ UNCHANGED <<key_entry, vector_mode, plaintext_area, ciphertext_area, log_area,
                   status_label, frame, prev, observed, steps, mi_a, mi_m>>

NextModInverse ==
    CallModInverse

SpecModInverse ==
    InitModInverse /\ [][NextModInverse]_vars

(***************************************************************************)
(* The application: the window after construction, the user's edits and    *)
(* the three buttons.  observed lists, for every click of Encrypt or       *)
(* Decrypt, what the handler read and what it left behind.                 *)
(***************************************************************************)
\* "11 8 3 7", "2 4 6 8", "1 2 3", "a b c d", ""
AppKeys ==
    { DefaultKey, KeyStr(<<2, 4, 6, 8>>), <<49, 32, 50, 32, 51>>,
      <<97, 32, 98, 32, 99, 32, 100>>, <<>> }

\* "ACT", "hi"
AppTexts ==
    { DefaultPlaintext, <<104, 105>> }

Init ==
    /\ InitWidgets
    /\ mi_a = 0 /\ mi_m = 26
    /\ mi_ret = [called |-> FALSE, some |-> FALSE, val |-> 0]

Tick ==
    /\ steps < MaxSteps
    /\ steps' = steps + 1
    /\ UNCHANGED <<mi_a, mi_m, mi_ret>>

EditKey ==
    /\ Tick
    /\ \E k \in AppKeys : key_entry' = k
    /\ UNCHANGED <<vector_mode, plaintext_area, ciphertext_area, log_area,
                   status_label, frame, prev, observed>>

SelectVectorMode ==
    /\ Tick
    /\ \E v \in Modes : vector_mode' = v
    /\ UNCHANGED <<key_entry, plaintext_area, ciphertext_area, log_area,
                   status_label, frame, prev, observed>>

EditPlaintext ==
    /\ Tick
    /\ \E t \in AppTexts : plaintext_area' = t
    /\ UNCHANGED <<key_entry, vector_mode, ciphertext_area, log_area,
                   status_label, frame, prev, observed>>

EditCiphertext ==
    /\ Tick
    /\ \E t \in AppTexts : ciphertext_area' = t
    /\ UNCHANGED <<key_entry, vector_mode, plaintext_area, log_area,
                   status_label, frame, prev, observed>>

\* what a click read (the mode, the key entry, the convention, the text
\* area) and what it left (whether a result was written, the result, the log)
Observation(mode) ==
    [in |-> <<mode, key_entry, vector_mode,
              TextGet(IF mode = "encrypt" THEN plaintext_area ELSE ciphertext_area)>>,
     out |-> [produced |-> Completed(frame'),
              result |-> IF ~Completed(frame') THEN <<>>
                         ELSE IF mode = "encrypt" THEN ciphertext_area'
                         ELSE plaintext_area',
              log |-> log_area']]

ClickEncrypt ==
    /\ Tick
    /\ ProcessAction("encrypt")
    /\ observed' = Append(observed, Observation("encrypt"))

ClickDecrypt ==
    /\ Tick
    /\ ProcessAction("decrypt")
    /\ observed' = Append(observed, Observation("decrypt"))

ClickClear ==
    /\ Tick
    /\ ClearAll
    /\ UNCHANGED observed

Next ==
    \/ EditKey
    \/ SelectVectorMode
    \/ EditPlaintext
    \/ EditCiphertext
    \/ ClickEncrypt
    \/ ClickDecrypt
    \/ ClickClear

Spec ==
    Init /\ [][Next]_vars

(***************************************************************************)
(* Reference notions the properties are stated with                        *)
(***************************************************************************)
Coprime26(x) ==
    \A d \in 2..26 : ~(x % d = 0 /\ 26 % d = 0)

\* the determinant by its closed form, for the sizes the keys have
DetFormula(K) ==
    IF Len(K) = 0 THEN 1
    ELSE IF Len(K) = 1 THEN K[1][1]
    ELSE IF Len(K) = 2 THEN K[1][1] * K[2][2] - K[1][2] * K[2][1]
    ELSE   K[1][1] * K[2][2] * K[3][3] + K[1][2] * K[2][3] * K[3][1]
         + K[1][3] * K[2][1] * K[3][2] - K[1][3] * K[2][2] * K[3][1]
         - K[1][2] * K[2][1] * K[3][3] - K[1][1] * K[2][3] * K[3][2]

IsIdentityMod26(A, B) ==
    \A i \in 1..Len(A) : \A j \in 1..Len(A) :
        SumSeq([k \in 1..Len(A) |-> A[i][k] * B[k][j]]) % 26 = (IF i = j THEN 1 ELSE 0)

IsAZ(text) ==
    \A i \in 1..Len(text) : text[i] \in 65..90

KeyParsed(f) ==
    f.outcome \in {"ok", "NotInvertible", "ZeroDivisionError"}

InverseReturned(f) ==
    f.mode = "decrypt" /\ f.outcome \in {"ok", "ZeroDivisionError"}

InverseRefused(f) ==
    f.mode = "decrypt" /\ f.outcome = "NotInvertible"

SomeEntry(K, S) ==
    \E i \in 1..Len(K) : \E j \in 1..Len(K) : K[i][j] \in S

(***************************************************************************)
(* C1  Round trip: a completed decrypt run that follows a completed        *)
(* encrypt run with the same key string and convention, and reads the      *)
(* ciphertext that run produced from a text of letters A-Z, gives back     *)
(* that text.                                                              *)
(***************************************************************************)
DecryptsLastEncryption ==
    /\ prev.mode = "encrypt" /\ prev.outcome = "ok"
    /\ frame.mode = "decrypt" /\ frame.outcome = "ok"
    /\ frame.key_str = prev.key_str
    /\ frame.vector_mode = prev.vector_mode
    /\ frame.text = TextGet(prev.result_text)
    /\ IsAZ(prev.processed_text)

RoundTrip ==
    DecryptsLastEncryption =>
        /\ frame.result_text = prev.processed_text
        /\ plaintext_area = prev.processed_text

RoundTripWitness ==
    /\ DecryptsLastEncryption
    /\ Len(frame.key_matrix) = 2
    /\ frame.vector_mode = "column"
    /\ Len(prev.processed_text) = 2
    /\ prev.processed_text = Normalize(prev.text)
    /\ prev.result_text # prev.processed_text
    /\ plaintext_area = prev.processed_text

(***************************************************************************)
(* C2  Determinant invertibility law: _get_key_inverse returns a matrix    *)
(* if and only if the determinant of the key, reduced mod 26, is coprime   *)
(* with 26.                                                                *)
(***************************************************************************)
InvertibilityLaw ==
    (frame.mode = "decrypt" /\ KeyParsed(frame) /\ Len(frame.key_matrix) <= 3) =>
        /\ InverseReturned(frame) <=> Coprime26(DetFormula(frame.key_matrix) % 26)
        /\ InverseRefused(frame) <=> ~Coprime26(DetFormula(frame.key_matrix) % 26)

\* a key refused although its determinant is not 0: negative and even
InvertibilityLawWitness ==
    /\ InverseRefused(frame)
    /\ Len(frame.key_matrix) = 2
    /\ DetFormula(frame.key_matrix) < 0
    /\ DetFormula(frame.key_matrix) % 2 = 0

(***************************************************************************)
(* C3  Whenever _get_key_inverse returns a matrix, its entries are in      *)
(* 0..25 and key x inverse is the identity mod 26.                         *)
(***************************************************************************)
InverseIsInverse ==
    InverseReturned(frame) =>
        /\ Len(frame.matrix_to_use) = Len(frame.key_matrix)
        /\ \A i \in 1..Len(frame.matrix_to_use) :
              /\ Len(frame.matrix_to_use[i]) = Len(frame.key_matrix)
              /\ \A j \in 1..Len(frame.matrix_to_use) : frame.matrix_to_use[i][j] \in 0..25
        /\ IsIdentityMod26(frame.key_matrix, frame.matrix_to_use)

\* a 2x2 key with a negative entry and an entry above 25
InverseIsInverseWitness ==
    /\ InverseReturned(frame)
    /\ Len(frame.key_matrix) = 2
    /\ SomeEntry(frame.key_matrix, {0 - 1})
    /\ SomeEntry(frame.key_matrix, {BigEntry})

(***************************************************************************)
(* C5  _str_to_key_matrix returns a matrix only when the number of tokens  *)
(* is one of 1, 4, 9, 16, 25, so that the matrix is N x N with N >= 1;     *)
(* every other count of (numeric) tokens, 0 included, is refused as not a  *)
(* perfect square.                                                         *)
(***************************************************************************)
PositiveSquares ==
    {n * n : n \in 1..5}

AllTokensNumeric(key_str) ==
    \A i \in 1..Len(Split(key_str)) : IntOk(Split(key_str)[i])

ParseOnlyPositiveSquares ==
    (frame.outcome # "none" /\ AllTokensNumeric(frame.key_str)) =>
        /\ KeyParsed(frame) <=> Len(Split(frame.key_str)) \in PositiveSquares
        /\ KeyParsed(frame) => Len(frame.key_matrix) >= 1
        /\ ~KeyParsed(frame) => frame.outcome = "NotPerfectSquare"

(***************************************************************************)
(* C6  The normalised text holds only the letters A-Z, so every block      *)
(* value letter - 'A' is in 0..25.                                         *)
(***************************************************************************)
NormalizedIsAZ ==
    frame.outcome = "ok" =>
        /\ IsAZ(frame.filtered)
        /\ \A i \in 1..Len(frame.filtered) : frame.filtered[i] - OrdA \in 0..25

(***************************************************************************)
(* C7  Padding: for block size N >= 1 the filtered text of length L        *)
(* becomes a text of length ceil(L/N)*N whose first L characters are the   *)
(* filtered text and whose other characters are 'A'; a text whose length   *)
(* is a multiple of N, 0 included, is unchanged.                           *)
(***************************************************************************)
CeilDiv(L, N) ==
    CHOOSE q \in 0..L : q * N >= L /\ (q = 0 \/ (q - 1) * N < L)

PaddingLaw ==
    frame.outcome = "ok" =>
        LET L == Len(frame.filtered)
            N == Len(frame.matrix_to_use)
            P == frame.processed_text
        IN  /\ N >= 1
            /\ Len(P) = CeilDiv(L, N) * N
            /\ SubSeq(P, 1, L) = frame.filtered
            /\ \A i \in (L + 1)..Len(P) : P[i] = 65
            /\ (L % N = 0 => P = frame.filtered)

\* a run with a 3x3 key that padded one letter with two
PaddingLawWitness ==
    /\ frame.outcome = "ok"
    /\ Len(frame.matrix_to_use) = 3
    /\ Len(frame.filtered) = 1
    /\ Len(frame.processed_text) = 3

(***************************************************************************)
(* C8  Block transform: the result has the length of the normalised text,  *)
(* and its i-th block is (v_i x M) mod 26 (row) or (M x v_i) mod 26        *)
(* (column) for the i-th block v_i of the normalised text, where M is the  *)
(* key when encrypting and its inverse mod 26 when decrypting.             *)
(***************************************************************************)
BlockLaw ==
    frame.outcome = "ok" =>
        LET M == frame.matrix_to_use
            N == Len(M)
            P == frame.processed_text
            R == frame.result_text
        IN  /\ Len(R) = Len(P)
            /\ frame.mode = "encrypt" => M = frame.key_matrix
            /\ frame.mode = "decrypt" => IsIdentityMod26(frame.key_matrix, M)
            /\ \A p \in 1..Len(P) :
                  LET b == (p - 1) \div N
                      j == ((p - 1) % N) + 1
                  IN  /\ R[p] \in 65..90
                      /\ R[p] - 65 =
                           SumSeq([k \in 1..N |->
                                     (P[b * N + k] - 65) *
                                     (IF frame.vector_mode = "row" THEN M[k][j]
                                                                   ELSE M[j][k])]) % 26

\* two blocks under a key that is not symmetric, in a decrypt run
BlockLawWitness ==
    /\ frame.outcome = "ok"
    /\ frame.mode = "decrypt"
    /\ Len(frame.matrix_to_use) = 2
    /\ frame.matrix_to_use[1][2] # frame.matrix_to_use[2][1]
    /\ Len(frame.processed_text) = 4
    /\ frame.result_text[1] # frame.result_text[3]

(***************************************************************************)
(* C4  _mod_inverse_num(a, m) returns b in 0..m-1 with (a*b) mod m = 1     *)
(* when a mod m is coprime with m, and None otherwise.                     *)
(***************************************************************************)
Coprime(x, m) ==
    \A d \in 2..m : ~(x % d = 0 /\ m % d = 0)

\* the claim as stated, for every modulus from 1 up
ModInverseLawAnyModulus ==
    mi_ret.called =>
        IF Coprime(mi_a % mi_m, mi_m)
        THEN /\ mi_ret.some
             /\ mi_ret.val \in 0..(mi_m - 1)
             /\ (mi_a * mi_ret.val) % mi_m = 1
        ELSE ~mi_ret.some

\* the claim for every modulus from 2 up; with modulus 1 the result is 0
ModInverseLaw ==
    mi_ret.called =>
        IF mi_m = 1 THEN mi_ret.some /\ mi_ret.val = 0
        ELSE IF Coprime(mi_a % mi_m, mi_m)
        THEN /\ mi_ret.some
             /\ mi_ret.val \in 0..(mi_m - 1)
             /\ (mi_a * mi_ret.val) % mi_m = 1
        ELSE ~mi_ret.some

\* a negative a with an inverse mod 26
ModInverseLawWitness ==
    /\ mi_ret.called
    /\ mi_a < 0
    /\ mi_m = 26
    /\ mi_ret.some
    /\ mi_ret.val > 1

(***************************************************************************)
(* C9  No partial output on failure: a click whose key has a token that    *)
(* is not numeric, or a token count that is not a square, or a decrypt     *)
(* click whose key is not invertible mod 26, writes no result, leaves      *)
(* both text areas as they were and does not run the transform; the        *)
(* failure to invert is reported apart from the two parse errors.          *)
(***************************************************************************)
ClickStep ==
    Len(observed') = Len(observed) + 1

TokenCount(key_str) ==
    Len(Split(key_str))

IsSquare(n) ==
    \E r \in 0..n : r * r = n

FailingClick ==
    /\ ClickStep
    /\ \/ ~AllTokensNumeric(key_entry)
       \/ ~IsSquare(TokenCount(key_entry))
       \/ /\ frame'.mode = "decrypt"
          /\ ~Coprime26(DetFormula(frame'.key_matrix) % 26)

NoPartialOutput ==
    [][FailingClick =>
          /\ plaintext_area' = plaintext_area
          /\ ciphertext_area' = ciphertext_area
          /\ ~observed'[Len(observed')].out.produced
          /\ frame'.processed_text = <<>> /\ frame'.result_text = <<>>
          /\ frame'.outcome \in {"NonNumeric", "NotPerfectSquare", "NotInvertible"}
          /\ frame'.outcome = "NonNumeric" <=> ~AllTokensNumeric(key_entry)
          /\ frame'.outcome = "NotInvertible" =>
                /\ status_label' = "Decryption failed: Key is not invertible."
                /\ log_area'[Len(log_area')].kind = "not_coprime"
          /\ frame'.outcome # "NotInvertible" =>
                /\ status_label' = status_label
                /\ log_area' = <<>>
    ]_vars

\* a refused decrypt click with text in both areas
NoPartialOutputWitness ==
    /\ frame.outcome = "NotInvertible"
    /\ observed # <<>>
    /\ ~observed[Len(observed)].out.produced
    /\ plaintext_area # <<>>
    /\ ciphertext_area # <<>>
    /\ status_label = "Decryption failed: Key is not invertible."

(***************************************************************************)
(* C10  Statelessness: what a click of Encrypt or Decrypt leaves (whether  *)
(* a result was written, the result text, the log) is a function of the    *)
(* mode, the key string, the convention and the text it read; two clicks   *)
(* with the same four inputs, whatever came before each, leave the same    *)
(* result and the same log.                                                *)
(***************************************************************************)
Stateless ==
    \A i \in 1..Len(observed) : \A j \in 1..Len(observed) :
        observed[i].in = observed[j].in => observed[i].out = observed[j].out

\* the same inputs clicked twice with a different click in between, the
\* log not empty
StatelessWitness ==
    \E i \in 1..Len(observed) : \E k \in 1..Len(observed) : \E j \in 1..Len(observed) :
        /\ i < k /\ k < j
        /\ observed[i].in = observed[j].in
        /\ observed[k].in # observed[i].in
        /\ observed[j].out.produced
        /\ observed[k].out.log # <<>>

(***************************************************************************)
(* C11  Output alphabet closure: every character of the result text of a   *)
(* completed encrypt or decrypt run, and so of the text area the run       *)
(* wrote, is one of the letters A-Z, whatever the sign and size of the     *)
(* key's entries, the convention and the input text.                       *)
(***************************************************************************)
OutputIsAZ ==
    frame.outcome = "ok" =>
        /\ Len(frame.key_matrix) >= 1
        /\ \A p \in 1..Len(frame.result_text) : frame.result_text[p] \in 65..90
        /\ frame.mode = "encrypt" => IsAZ(ciphertext_area)
        /\ frame.mode = "decrypt" => IsAZ(plaintext_area)

\* the product of block v and matrix M at component j, before the reduction
RawComponent(v, M, j, vmode) ==
    SumSeq([k \in 1..Len(M) |-> v[k] * (IF vmode = "row" THEN M[k][j] ELSE M[j][k])])

\* an encrypt run under a 2x2 key with a negative entry and an entry above
\* 25, not reduced mod 26, whose first product has a negative component
OutputIsAZWitness ==
    /\ frame.outcome = "ok"
    /\ frame.mode = "encrypt"
    /\ Len(frame.key_matrix) = 2
    /\ SomeEntry(frame.key_matrix, {0 - 1})
    /\ SomeEntry(frame.key_matrix, {BigEntry})
    /\ Len(frame.result_text) >= 2
    /\ \E j \in 1..2 :
          RawComponent([k \in 1..2 |-> frame.processed_text[k] - 65],
                       frame.key_matrix, j, frame.vector_mode) < 0
    /\ IsAZ(ciphertext_area)

====
